---- MODULE Spec2Model ----
(***************************************************************************)
(* A model of the chipy8 CHIP-8 interpreter (src/src/chip8.rs) and of the  *)
(* part of the terminal host (src/src/main.rs) that writes its input latch.*)
(*                                                                         *)
(* The machine is the record chip8, one field per field of struct Chip8.   *)
(* The rendering canvas (drawille) and the Rom path are left out: they are *)
(* never read by new or step.                                              *)
(*                                                                         *)
(* Rust's +, -, * on u8/u16 panic on overflow when the crate is built with *)
(* overflow checks (the dev and test profiles) and wrap when it is built   *)
(* without (the release profile); #![allow(arithmetic_overflow)] only      *)
(* silences a lint.  overflow_checks is that build choice, made in Init.   *)
(* Indexing an array out of bounds panics in every build.                  *)
(***************************************************************************)
EXTENDS Integers, Sequences, FiniteSets, TLC

VARIABLES
    rom,              \* Rom.contents handed to Chip8::new (a sequence of bytes)
    overflow_checks,  \* TRUE: built with overflow checks, FALSE: wrapping build
    status,           \* "start", "running", or the panic that ended the run
    chip8,            \* the machine (struct Chip8), NoChip8 before/without new
    hist,             \* history: the last two steps, latest first, each with the
                      \* machine as the step found it and the nibbles it fetched
    calls,            \* history: call sites of the CALLs not yet returned from,
                      \* and the call site the last RET returned from
    timers,           \* history: what each timer was last set to and the steps since
    odd_target,       \* history: some executed 1nnn, 2nnn or Bnnn named an odd address
    host              \* the terminal host (struct App of main.rs): the paused flag of
                      \* the command line, mode, tick_count; and, as history, the
                      \* parity of the number of mode toggles

vars == <<rom, overflow_checks, status, chip8, hist, calls, timers, odd_target, host>>

----------------------------------------------------------------------------
(* Program constants                                                       *)

PROGRAM_START == 512
MEMORY_SIZE == 4096
WIDTH_BYTE == 8
HEIGHT_BYTE == 32
NUM_REGISTERS == 16
STACK_SIZE == 16
DISPLAY_SIZE == WIDTH_BYTE * HEIGHT_BYTE
U8_MOD == 256
U16_MOD == 65536

CHARACTERS ==
    << 240, 144, 144, 144, 240,
        32,  96,  32,  32, 112,
       240,  16, 240, 128, 240,
       240,  16, 240,  16, 240,
       144, 144, 240,  16,  16,
       240, 128, 240,  16, 240,
       240, 128, 240, 144, 240,
       240,  16,  32,  64,  64,
       240, 144, 240, 144, 240,
       240, 144, 240,  16, 240,
       240, 144, 240, 144, 144,
       224, 144, 224, 144, 224,
       240, 128, 128, 128, 240,
       224, 144, 144, 144, 224,
       240, 128, 240, 128, 240,
       240, 128, 240, 128, 128 >>

----------------------------------------------------------------------------
(* Bounds of the model                                                     *)

\* the host writes key codes 0..MaxKey into the input latch (main.rs has 0..15)
MaxKey == 1
\* ROM images of the size family are checked up to RomCapacity + MaxOversize bytes
MaxOversize == 2

----------------------------------------------------------------------------
(* Bit-level helpers for the u8/u16 operators &, |, ^, !, <<, >>           *)

Bit(a, k) == (a \div (2 ^ k)) % 2

BitAnd(a, b, w) ==
    LET f[k \in 0..w] == IF k = w THEN 0
                         ELSE Bit(a, k) * Bit(b, k) * (2 ^ k) + f[k + 1]
    IN f[0]

BitOr(a, b, w) ==
    LET f[k \in 0..w] ==
            IF k = w THEN 0
            ELSE (Bit(a, k) + Bit(b, k) - Bit(a, k) * Bit(b, k)) * (2 ^ k) + f[k + 1]
    IN f[0]

BitXor(a, b, w) ==
    LET f[k \in 0..w] == IF k = w THEN 0
                         ELSE ((Bit(a, k) + Bit(b, k)) % 2) * (2 ^ k) + f[k + 1]
    IN f[0]

BitNot8(a) == (U8_MOD - 1) - a

\* u8 << k and u8 >> k (k < 8): the shifted-out bits are dropped, never a panic
Shl8(a, k) == (a * (2 ^ k)) % U8_MOD
Shr8(a, k) == a \div (2 ^ k)

\* n1 << 4 | n2 on u8 nibbles
byte_of(n1, n2) == BitOr(Shl8(n1, 4), n2, 8)

\* fn assemble_addr(a1, a2, a3) -> u16
assemble_addr(a1, a2, a3) == BitOr((a1 * 256) % U16_MOD, byte_of(a2, a3), 16)

----------------------------------------------------------------------------
(* Results of a fallible piece of code: the machine and how it ended       *)

Running == "running"
PanicTodo == "panic_todo"           \* todo!("Not all opcodes implemented!")
PanicBounds == "panic_bounds"       \* index or slice range out of bounds
PanicOverflow == "panic_overflow"   \* arithmetic overflow, overflow-checked build

Ok(m) == [m |-> m, st |-> Running]
Panic(m, why) == [m |-> m, st |-> why]

NoChip8 == [none |-> TRUE]

----------------------------------------------------------------------------
(* Chip8::new                                                              *)

\* dst[start .. start+len(data)) <- data   (slice::copy_from_slice)
copy_from_slice(mem, start, data) ==
    [a \in DOMAIN mem |->
        IF a >= start /\ a < start + Len(data) THEN data[a - start + 1] ELSE mem[a]]

\* the Chip8 { .. } expression at the end of new
fresh_machine(memory) ==
    [ memory          |-> memory,
      registers       |-> [k \in 0..(NUM_REGISTERS - 1) |-> 0],
      i               |-> 0,
      input           |-> 0,
      delay           |-> 0,
      sound           |-> 0,
      program_counter |-> PROGRAM_START,
      stack           |-> [k \in 0..(STACK_SIZE - 1) |-> 0],
      stack_pointer   |-> 0,
      display         |-> [k \in 0..(DISPLAY_SIZE - 1) |-> 0] ]

\* new without the copy of CHARACTERS
new_without_font(r) ==
    IF PROGRAM_START + Len(r) > MEMORY_SIZE
    THEN Panic(NoChip8, PanicBounds)
    ELSE Ok(fresh_machine(copy_from_slice([a \in 0..(MEMORY_SIZE - 1) |-> 0],
                                          PROGRAM_START, r)))

\* new copying as much of the ROM as fits instead of checking the range
new_truncating(r) ==
    LET room == MEMORY_SIZE - PROGRAM_START
        kept == IF Len(r) > room THEN SubSeq(r, 1, room) ELSE r
        loaded == copy_from_slice([a \in 0..(MEMORY_SIZE - 1) |-> 0], PROGRAM_START, kept)
    IN Ok(fresh_machine(copy_from_slice(loaded, 0, CHARACTERS)))

\* pub fn new(rom: Rom) -> Chip8.  The range PROGRAM_START..PROGRAM_START+len is
\* checked against the array before anything is copied; a range that ends past
\* MEMORY_SIZE panics and no Chip8 is returned.
new(r) ==
    IF PROGRAM_START + Len(r) > MEMORY_SIZE
    THEN Panic(NoChip8, PanicBounds)
    ELSE LET zeroed == [a \in 0..(MEMORY_SIZE - 1) |-> 0]
             loaded == copy_from_slice(zeroed, PROGRAM_START, r)
             memory == copy_from_slice(loaded, 0, CHARACTERS)
         IN Ok(fresh_machine(memory))

----------------------------------------------------------------------------
(* Arithmetic of the build: v is the mathematical result of a +, - or * on  *)
(* an unsigned type of modulus mod                                          *)

Overflows(v, mod) == v < 0 \/ v >= mod
Wrapped(v, mod) == v % mod

\* +=, -=, +, -, * : panic when the build checks overflow, wrap otherwise
Arith(v, mod, oc) == [panic |-> oc /\ Overflows(v, mod), v |-> Wrapped(v, mod)]

----------------------------------------------------------------------------
(* The arms of the match in Chip8::step.  Each takes the machine (and the   *)
(* build's overflow_checks where it computes) and yields Ok or Panic.       *)

\* timers decremented without the > 0 guards, in wrapping u8 arithmetic
tick_timers_unguarded(m) ==
    [m EXCEPT !.delay = (m.delay - 1) % U8_MOD,
              !.sound = (m.sound - 1) % U8_MOD]

\* if self.delay > 0 { self.delay -= 1 }  if self.sound > 0 { self.sound -= 1 }
tick_timers(m) ==
    [m EXCEPT !.delay = IF m.delay > 0 THEN m.delay - 1 ELSE m.delay,
              !.sound = IF m.sound > 0 THEN m.sound - 1 ELSE m.sound]

\* set_addr compensating the advance by 1 instead of 2
set_addr_minus_one(m, a1, a2, a3, oc) ==
    LET a == Arith(assemble_addr(a1, a2, a3) - 1, U16_MOD, oc)
    IN IF a.panic THEN Panic(m, PanicOverflow)
       ELSE Ok([m EXCEPT !.program_counter = a.v])

\* fn set_addr: program_counter = assemble_addr(a1, a2, a3) - 2
set_addr(m, a1, a2, a3, oc) ==
    LET a == Arith(assemble_addr(a1, a2, a3) - 2, U16_MOD, oc)
    IN IF a.panic THEN Panic(m, PanicOverflow)
       ELSE Ok([m EXCEPT !.program_counter = a.v])

\* self.program_counter += 2 inside a skip arm
skip_next(m, oc) ==
    LET a == Arith(m.program_counter + 2, U16_MOD, oc)
    IN IF a.panic THEN Panic(m, PanicOverflow)
       ELSE Ok([m EXCEPT !.program_counter = a.v])

\* a clear that also resets I
arm_CLS_resets_i(m) == Ok([m EXCEPT !.display = [k \in DOMAIN m.display |-> 0], !.i = 0])

\* (0, 0, 0x0E, 0x00): self.display.fill(0)
arm_CLS(m) == Ok([m EXCEPT !.display = [k \in DOMAIN m.display |-> 0]])

\* (0, 0, 0x0E, 0x0E): pc = stack[sp]; sp -= 1
arm_RET(m, oc) ==
    IF m.stack_pointer >= STACK_SIZE THEN Panic(m, PanicBounds)
    ELSE LET m1 == [m EXCEPT !.program_counter = m.stack[m.stack_pointer]]
             sp == Arith(m.stack_pointer - 1, U8_MOD, oc)
         IN IF sp.panic THEN Panic(m1, PanicOverflow)
            ELSE Ok([m1 EXCEPT !.stack_pointer = sp.v])

\* (0x01, a1, a2, a3)
arm_JP(m, a1, a2, a3, oc) == set_addr(m, a1, a2, a3, oc)

\* CALL storing the program counter in the slot SP names and then raising SP
arm_CALL_store_first(m, a1, a2, a3, oc) ==
    IF m.stack_pointer >= STACK_SIZE THEN Panic(m, PanicBounds)
    ELSE LET m1 == [m EXCEPT !.stack[m.stack_pointer] = m.program_counter]
             sp == Arith(m.stack_pointer + 1, U8_MOD, oc)
         IN IF sp.panic THEN Panic(m1, PanicOverflow)
            ELSE set_addr([m1 EXCEPT !.stack_pointer = sp.v], a1, a2, a3, oc)

\* (0x02, a1, a2, a3): sp += 1; stack[sp] = pc; set_addr
arm_CALL(m, a1, a2, a3, oc) ==
    LET sp == Arith(m.stack_pointer + 1, U8_MOD, oc)
    IN IF sp.panic THEN Panic(m, PanicOverflow)
       ELSE LET m1 == [m EXCEPT !.stack_pointer = sp.v]
            IN IF sp.v >= STACK_SIZE THEN Panic(m1, PanicBounds)
               ELSE set_addr([m1 EXCEPT !.stack[sp.v] = m.program_counter],
                             a1, a2, a3, oc)

\* (0x03, x, n1, n2)
arm_3xnn(m, x, n1, n2, oc) ==
    IF m.registers[x] = byte_of(n1, n2) THEN skip_next(m, oc) ELSE Ok(m)

\* the 4xnn arm with the comparison of the 3xnn arm
arm_4xnn_eq(m, x, n1, n2, oc) ==
    IF m.registers[x] = byte_of(n1, n2) THEN skip_next(m, oc) ELSE Ok(m)

\* (0x04, x, n1, n2)
arm_4xnn(m, x, n1, n2, oc) ==
    IF m.registers[x] # byte_of(n1, n2) THEN skip_next(m, oc) ELSE Ok(m)

\* (0x05, x, y, _)
arm_5xy(m, x, y, oc) ==
    IF m.registers[x] = m.registers[y] THEN skip_next(m, oc) ELSE Ok(m)

\* (0x09, x, y, 0)
arm_9xy0(m, x, y, oc) ==
    IF m.registers[x] # m.registers[y] THEN skip_next(m, oc) ELSE Ok(m)

\* (0x06, x, n1, n2)
arm_6xnn(m, x, n1, n2) == Ok([m EXCEPT !.registers[x] = byte_of(n1, n2)])

\* registers[x] += v  (u8)
add_assign(m, x, v, oc) ==
    LET a == Arith(m.registers[x] + v, U8_MOD, oc)
    IN IF a.panic THEN Panic(m, PanicOverflow)
       ELSE Ok([m EXCEPT !.registers[x] = a.v])

\* (0x07, x, n1, n2)
arm_7xnn(m, x, n1, n2, oc) == add_assign(m, x, byte_of(n1, n2), oc)

\* (0x08, x, y, 0)
arm_8xy0(m, x, y, oc) == add_assign(m, x, m.registers[y], oc)

\* (0x08, x, y, 1) |=   (0x08, x, y, 2) &=   (0x08, x, y, 3) ^=
arm_8xy1(m, x, y) ==
    Ok([m EXCEPT !.registers[x] = BitOr(m.registers[x], m.registers[y], 8)])
arm_8xy2(m, x, y) ==
    Ok([m EXCEPT !.registers[x] = BitAnd(m.registers[x], m.registers[y], 8)])
arm_8xy3(m, x, y) ==
    Ok([m EXCEPT !.registers[x] = BitXor(m.registers[x], m.registers[y], 8)])

\* (0x08, x, y, 4): overflowing_add never panics
arm_8xy4(m, x, y) ==
    LET sum == m.registers[x] + m.registers[y]
        m1 == [m EXCEPT !.registers[x] = Wrapped(sum, U8_MOD)]
    IN Ok([m1 EXCEPT !.registers[15] = IF Overflows(sum, U8_MOD) THEN 1 ELSE 0])

\* 8xy5 with the flag set only when Vx is strictly greater than Vy
arm_8xy5_strict(m, x, y) ==
    LET d == m.registers[x] - m.registers[y]
        m1 == [m EXCEPT !.registers[x] = d % U8_MOD]
    IN Ok([m1 EXCEPT !.registers[15] = IF d > 0 THEN 1 ELSE 0])

\* (0x08, x, y, 5): overflowing_sub, VF = !overflow
arm_8xy5(m, x, y) ==
    LET d == m.registers[x] - m.registers[y]
        m1 == [m EXCEPT !.registers[x] = Wrapped(d, U8_MOD)]
    IN Ok([m1 EXCEPT !.registers[15] = IF Overflows(d, U8_MOD) THEN 0 ELSE 1])

\* (0x08, x, y, 7): Vy - Vx
arm_8xy7(m, x, y) ==
    LET d == m.registers[y] - m.registers[x]
        m1 == [m EXCEPT !.registers[x] = Wrapped(d, U8_MOD)]
    IN Ok([m1 EXCEPT !.registers[15] = IF Overflows(d, U8_MOD) THEN 0 ELSE 1])

\* (0x08, x, _, 6): VF = Vx | 1; Vx >>= 1
arm_8xy6(m, x) ==
    LET m1 == [m EXCEPT !.registers[15] = BitOr(m.registers[x], 1, 8)]
    IN Ok([m1 EXCEPT !.registers[x] = Shr8(m1.registers[x], 1)])

\* (0x08, x, _, 0xE): VF = Vx | 8; Vx <<= 1
arm_8xyE(m, x) ==
    LET m1 == [m EXCEPT !.registers[15] = BitOr(m.registers[x], 8, 8)]
    IN Ok([m1 EXCEPT !.registers[x] = Shl8(m1.registers[x], 1)])

\* (0x0A, n1, n2, n3)
arm_Annn(m, n1, n2, n3) == Ok([m EXCEPT !.i = assemble_addr(n1, n2, n3)])

\* (0x0B, n1, n2, n3): pc = registers[0] as u16 + assemble_addr(..)
arm_Bnnn(m, n1, n2, n3, oc) ==
    LET a == Arith(m.registers[0] + assemble_addr(n1, n2, n3), U16_MOD, oc)
    IN IF a.panic THEN Panic(m, PanicOverflow)
       ELSE Ok([m EXCEPT !.program_counter = a.v])

\* Cxnn that also leaves the low bit of the random byte in VF
arm_Cxnn_flagged(m, x, n1, n2, rnd) ==
    LET m1 == [m EXCEPT !.registers[x] = BitAnd(rnd, BitOr(Shl8(n1, 4), n2, 8), 8)]
    IN Ok([m1 EXCEPT !.registers[15] = rnd % 2])

\* (0x0C, x, n1, n2): rnd is the byte rand::random::<u8>() returned
arm_Cxnn(m, x, n1, n2, rnd) ==
    Ok([m EXCEPT !.registers[x] = BitAnd(rnd, BitOr(Shl8(n1, 4), n2, 8), 8)])

\* the sprite row OR-ed onto the screen instead of XOR-ed
blend_or(current_screen, current_sprite) == BitOr(current_screen, current_sprite, 8)

\* let fin = *current_screen ^ current_sprite
blend(current_screen, current_sprite) == BitXor(current_screen, current_sprite, 8)

\* changed |= (*current_screen & !fin) != 0
clears_pixel(current_screen, fin) == BitAnd(current_screen, BitNot8(fin), 8) # 0

\* One row of the loop of (0x0D, x, y, n), row index row, and the rows after it.
\* The display index px / 8 + ((py + row) * 8) is computed in u8; the sprite byte
\* is memory[i + row] with the index computed in usize.
RECURSIVE draw_rows(_, _, _, _, _, _, _)
draw_rows(m, x, y, n, row, changed, oc) ==
    IF row >= n
    THEN Ok([m EXCEPT !.registers[15] = IF changed THEN 1 ELSE 0])
    ELSE LET px == m.registers[x]
             py == m.registers[y]
             line == Arith(py + row, U8_MOD, oc)
             offset == Arith(line.v * 8, U8_MOD, oc)
             index == Arith(px \div 8 + offset.v, U8_MOD, oc)
         IN IF line.panic \/ offset.panic \/ index.panic THEN Panic(m, PanicOverflow)
            ELSE IF index.v >= DISPLAY_SIZE THEN Panic(m, PanicBounds)
            ELSE IF m.i + row >= MEMORY_SIZE THEN Panic(m, PanicBounds)
            ELSE LET current_screen == m.display[index.v]
                     current_sprite == m.memory[m.i + row]
                     fin == blend(current_screen, current_sprite)
                     cleared == clears_pixel(current_screen, fin)
                 IN draw_rows([m EXCEPT !.display[index.v] = fin],
                              x, y, n, row + 1, changed \/ cleared, oc)

\* (0x0D, x, y, n)
arm_Dxyn(m, x, y, n, oc) == draw_rows(m, x, y, n, 0, FALSE, oc)

\* (0x0E, x, 9, 0x0E)
arm_Ex9E(m, x, oc) ==
    IF m.input = m.registers[x] THEN skip_next(m, oc) ELSE Ok(m)

\* (0x0E, x, 0x0A, 1)
arm_ExA1(m, x, oc) ==
    IF m.input # m.registers[x] THEN skip_next(m, oc) ELSE Ok(m)

\* Fx07 reading the delay timer as the end-of-step decrement will leave it
arm_Fx07_after_tick(m, x) ==
    Ok([m EXCEPT !.registers[x] = IF m.delay > 0 THEN m.delay - 1 ELSE 0])

\* (0x0F, x, 0, 7)  (0x0F, x, 0, 0x0A)  (0x0F, x, 1, 5)  (0x0F, x, 1, 8)
arm_Fx07(m, x) == Ok([m EXCEPT !.registers[x] = m.delay])
arm_Fx0A(m, x) == Ok([m EXCEPT !.registers[x] = m.input])
arm_Fx15(m, x) == Ok([m EXCEPT !.delay = m.registers[x]])
arm_Fx18(m, x) == Ok([m EXCEPT !.sound = m.registers[x]])

\* (0x0F, x, 1, 0x0E): self.i += registers[x] as u16
arm_Fx1E(m, x, oc) ==
    LET a == Arith(m.i + m.registers[x], U16_MOD, oc)
    IN IF a.panic THEN Panic(m, PanicOverflow) ELSE Ok([m EXCEPT !.i = a.v])

\* (0x0F, x, 2, 0x09): self.i = x as u16 * 5
arm_Fx29(m, x, oc) ==
    LET a == Arith(x * 5, U16_MOD, oc)
    IN IF a.panic THEN Panic(m, PanicOverflow) ELSE Ok([m EXCEPT !.i = a.v])

\* memory[addr] = v, an indexed store
store(m, addr, v) ==
    IF addr >= MEMORY_SIZE THEN Panic(m, PanicBounds)
    ELSE Ok([m EXCEPT !.memory[addr] = v])

\* (0x0F, x, 3, 3): three stores, in order
arm_Fx33(m, x) ==
    LET val == m.registers[x]
        s0 == store(m, m.i, val \div 100)
        s1 == store(s0.m, m.i + 1, (val % 100) \div 10)
        s2 == store(s1.m, m.i + 2, val % 10)
    IN IF s0.st # Running THEN s0 ELSE IF s1.st # Running THEN s1 ELSE s2

\* (0x0F, x, 5, 5): for i in 0..=x { memory[I + i] = registers[i] }
RECURSIVE save_registers(_, _, _)
save_registers(m, x, k) ==
    IF k > x THEN Ok(m)
    ELSE LET s == store(m, m.i + k, m.registers[k])
         IN IF s.st # Running THEN s ELSE save_registers(s.m, x, k + 1)

arm_Fx55(m, x) == save_registers(m, x, 0)

\* (0x0F, x, 6, 5): for i in 0..=x { registers[i] = memory[I + i] }
RECURSIVE load_registers(_, _, _)
load_registers(m, x, k) ==
    IF k > x THEN Ok(m)
    ELSE IF m.i + k >= MEMORY_SIZE THEN Panic(m, PanicBounds)
    ELSE load_registers([m EXCEPT !.registers[k] = m.memory[m.i + k]], x, k + 1)

\* Fx65 leaving I after the last register read
arm_Fx65_moves_i(m, x) ==
    LET r == load_registers(m, x, 0)
    IN [r EXCEPT !.m.i = (m.i + x + 1) % U16_MOD]

arm_Fx65(m, x) == load_registers(m, x, 0)

\* a default arm reached after the program counter and the timers were advanced
arm_default_after_advance(m) ==
    Panic(tick_timers([m EXCEPT !.program_counter = m.program_counter + 2]), PanicTodo)

\* the default arm: println!, todo!
arm_default(m) == Panic(m, PanicTodo)

----------------------------------------------------------------------------
(* Chip8::step                                                             *)

\* Which arm of match (n1, n2, n3, n4) is taken: the first pattern that matches.
decode(n1, n2, n3, n4) ==
    CASE n1 = 0 /\ n2 = 0 /\ n3 = 14 /\ n4 = 0   -> "CLS"
      [] n1 = 0 /\ n2 = 0 /\ n3 = 14 /\ n4 = 14  -> "RET"
      [] n1 = 1                                  -> "JP"
      [] n1 = 2                                  -> "CALL"
      [] n1 = 3                                  -> "3xnn"
      [] n1 = 4                                  -> "4xnn"
      [] n1 = 5                                  -> "5xy"
      [] n1 = 6                                  -> "6xnn"
      [] n1 = 7                                  -> "7xnn"
      [] n1 = 8 /\ n4 = 0                        -> "8xy0"
      [] n1 = 8 /\ n4 = 1                        -> "8xy1"
      [] n1 = 8 /\ n4 = 2                        -> "8xy2"
      [] n1 = 8 /\ n4 = 3                        -> "8xy3"
      [] n1 = 8 /\ n4 = 4                        -> "8xy4"
      [] n1 = 8 /\ n4 = 5                        -> "8xy5"
      [] n1 = 8 /\ n4 = 6                        -> "8xy6"
      [] n1 = 8 /\ n4 = 7                        -> "8xy7"
      [] n1 = 8 /\ n4 = 14                       -> "8xyE"
      [] n1 = 9 /\ n4 = 0                        -> "9xy0"
      [] n1 = 10                                 -> "Annn"
      [] n1 = 11                                 -> "Bnnn"
      [] n1 = 12                                 -> "Cxnn"
      [] n1 = 13                                 -> "Dxyn"
      [] n1 = 14 /\ n3 = 9 /\ n4 = 14            -> "Ex9E"
      [] n1 = 14 /\ n3 = 10 /\ n4 = 1            -> "ExA1"
      [] n1 = 15 /\ n3 = 0 /\ n4 = 7             -> "Fx07"
      [] n1 = 15 /\ n3 = 0 /\ n4 = 10            -> "Fx0A"
      [] n1 = 15 /\ n3 = 1 /\ n4 = 5             -> "Fx15"
      [] n1 = 15 /\ n3 = 1 /\ n4 = 8             -> "Fx18"
      [] n1 = 15 /\ n3 = 1 /\ n4 = 14            -> "Fx1E"
      [] n1 = 15 /\ n3 = 2 /\ n4 = 9             -> "Fx29"
      [] n1 = 15 /\ n3 = 3 /\ n4 = 3             -> "Fx33"
      [] n1 = 15 /\ n3 = 5 /\ n4 = 5             -> "Fx55"
      [] n1 = 15 /\ n3 = 6 /\ n4 = 5             -> "Fx65"
      [] OTHER                                   -> "default"

\* The body of the arm that decode selects.
execute(m, n1, n2, n3, n4, oc, rnd) ==
    LET arm == decode(n1, n2, n3, n4)
    IN CASE arm = "CLS"  -> arm_CLS(m)
         [] arm = "RET"  -> arm_RET(m, oc)
         [] arm = "JP"   -> arm_JP(m, n2, n3, n4, oc)
         [] arm = "CALL" -> arm_CALL(m, n2, n3, n4, oc)
         [] arm = "3xnn" -> arm_3xnn(m, n2, n3, n4, oc)
         [] arm = "4xnn" -> arm_4xnn(m, n2, n3, n4, oc)
         [] arm = "5xy"  -> arm_5xy(m, n2, n3, oc)
         [] arm = "6xnn" -> arm_6xnn(m, n2, n3, n4)
         [] arm = "7xnn" -> arm_7xnn(m, n2, n3, n4, oc)
         [] arm = "8xy0" -> arm_8xy0(m, n2, n3, oc)
         [] arm = "8xy1" -> arm_8xy1(m, n2, n3)
         [] arm = "8xy2" -> arm_8xy2(m, n2, n3)
         [] arm = "8xy3" -> arm_8xy3(m, n2, n3)
         [] arm = "8xy4" -> arm_8xy4(m, n2, n3)
         [] arm = "8xy5" -> arm_8xy5(m, n2, n3)
         [] arm = "8xy6" -> arm_8xy6(m, n2)
         [] arm = "8xy7" -> arm_8xy7(m, n2, n3)
         [] arm = "8xyE" -> arm_8xyE(m, n2)
         [] arm = "9xy0" -> arm_9xy0(m, n2, n3, oc)
         [] arm = "Annn" -> arm_Annn(m, n2, n3, n4)
         [] arm = "Bnnn" -> arm_Bnnn(m, n2, n3, n4, oc)
         [] arm = "Cxnn" -> arm_Cxnn(m, n2, n3, n4, rnd)
         [] arm = "Dxyn" -> arm_Dxyn(m, n2, n3, n4, oc)
         [] arm = "Ex9E" -> arm_Ex9E(m, n2, oc)
         [] arm = "ExA1" -> arm_ExA1(m, n2, oc)
         [] arm = "Fx07" -> arm_Fx07(m, n2)
         [] arm = "Fx0A" -> arm_Fx0A(m, n2)
         [] arm = "Fx15" -> arm_Fx15(m, n2)
         [] arm = "Fx18" -> arm_Fx18(m, n2)
         [] arm = "Fx1E" -> arm_Fx1E(m, n2, oc)
         [] arm = "Fx29" -> arm_Fx29(m, n2, oc)
         [] arm = "Fx33" -> arm_Fx33(m, n2)
         [] arm = "Fx55" -> arm_Fx55(m, n2)
         [] arm = "Fx65" -> arm_Fx65(m, n2)
         [] OTHER        -> arm_default(m)

\* The two indexed reads of the fetch and the split into nibbles.  st is the
\* panic when an index is outside the memory array (or pc + 1 overflows u16 in a
\* checked build), and op is then empty.
fetch(m, oc) ==
    LET pc == m.program_counter
        next == Arith(pc + 1, U16_MOD, oc)
    IN IF pc >= MEMORY_SIZE THEN [st |-> PanicBounds, op |-> <<>>]
       ELSE IF next.panic THEN [st |-> PanicOverflow, op |-> <<>>]
       ELSE IF next.v >= MEMORY_SIZE THEN [st |-> PanicBounds, op |-> <<>>]
       ELSE LET byte_1 == m.memory[pc]
                byte_2 == m.memory[next.v]
            IN [st |-> Running,
                op |-> << Shr8(BitAnd(byte_1, 240, 8), 4), BitAnd(byte_1, 15, 8),
                          Shr8(BitAnd(byte_2, 240, 8), 4), BitAnd(byte_2, 15, 8) >>]

\* the tail of step with the commented-out self.input = 0 in force
advance_resets_input(m, oc) ==
    LET a == Arith(m.program_counter + 2, U16_MOD, oc)
    IN IF a.panic THEN Panic(m, PanicOverflow)
       ELSE Ok([tick_timers([m EXCEPT !.program_counter = a.v]) EXCEPT !.input = 0])

\* After the match: program_counter += 2, then the two timers
advance(m, oc) ==
    LET a == Arith(m.program_counter + 2, U16_MOD, oc)
    IN IF a.panic THEN Panic(m, PanicOverflow)
       ELSE Ok(tick_timers([m EXCEPT !.program_counter = a.v]))

\* pub fn step(&mut self): fetch, match, advance.  rnd is used by Cxnn only.
step(m, oc, rnd) ==
    LET f == fetch(m, oc)
    IN IF f.st # Running THEN Panic(m, f.st)
       ELSE LET r == execute(m, f.op[1], f.op[2], f.op[3], f.op[4], oc, rnd)
            IN IF r.st # Running THEN r ELSE advance(r.m, oc)

----------------------------------------------------------------------------
(* History kept for stating properties; the program does not read it       *)

Stepped == hist # <<>>
Prev == hist[1].m               \* the machine as the last step found it
Fetched == hist[1].op           \* the four nibbles the last step fetched
FetchedArm == IF Stepped /\ Fetched # <<>>
              THEN decode(Fetched[1], Fetched[2], Fetched[3], Fetched[4])
              ELSE "none"

NoSite == 0 - 1
NoCalls == [open |-> <<>>, last |-> NoSite, unmatched |-> FALSE]

\* CALL pushes its own address, RET pops the latest; unmatched records a RET
\* executed with no call outstanding
track_calls(c, arm, m, ok) ==
    IF ~ok THEN c
    ELSE IF arm = "CALL"
         THEN [c EXCEPT !.open = Append(c.open, m.program_counter), !.last = NoSite]
    ELSE IF arm = "RET"
         THEN IF c.open = <<>>
              THEN [c EXCEPT !.last = NoSite, !.unmatched = TRUE]
              ELSE [c EXCEPT !.open = SubSeq(c.open, 1, Len(c.open) - 1),
                             !.last = c.open[Len(c.open)]]
    ELSE [c EXCEPT !.last = NoSite]

NoTimers == [delay_set |-> 0, delay_age |-> 0, sound_set |-> 0, sound_age |-> 0]

Min(a, b) == IF a < b THEN a ELSE b

\* what the timer held when the step that wrote it ended, and the number of
\* completed steps since, counted up to that value
track_timers(t, arm, after, ok) ==
    IF ~ok THEN t
    ELSE [ delay_set |-> IF arm = "Fx15" THEN after.delay ELSE t.delay_set,
           delay_age |-> IF arm = "Fx15" THEN 0 ELSE Min(t.delay_age + 1, t.delay_set),
           sound_set |-> IF arm = "Fx18" THEN after.sound ELSE t.sound_set,
           sound_age |-> IF arm = "Fx18" THEN 0 ELSE Min(t.sound_age + 1, t.sound_set) ]

\* the address a 1nnn or 2nnn names, and the one Bnnn names on the V0 it finds
named_target(arm, m, op) ==
    LET nnn == op[2] * 256 + op[3] * 16 + op[4]
    IN IF arm = "Bnnn" THEN m.registers[0] + nnn ELSE nnn

\* odd_target once a 1nnn, 2nnn or Bnnn that names an odd address was executed
track_targets(odd, arm, m, op) ==
    odd \/ (arm \in {"JP", "CALL", "Bnnn"} /\ named_target(arm, m, op) % 2 = 1)

----------------------------------------------------------------------------
(* Actions                                                                 *)

\* main.rs App::new / gui.rs main: Chip8::new(rom)
New ==
    /\ status = "start"
    /\ LET r == new(rom)
       IN /\ chip8' = r.m
          /\ status' = r.st
    /\ UNCHANGED <<rom, overflow_checks, hist, calls, timers, odd_target, host>>

\* the bytes rand::random::<u8>() can return when the instruction at pc is Cxnn
RandomBytes(m, oc) ==
    LET f == fetch(m, oc)
    IN IF f.st = Running /\ f.op[1] = 12 THEN 0..(U8_MOD - 1) ELSE {0}

\* main.rs App::on_tick (Mode::Running) / gui.rs Message::Tick: self.chip8.step()
Step ==
    /\ status = Running
    /\ \E rnd \in RandomBytes(chip8, overflow_checks) :
          LET f == fetch(chip8, overflow_checks)
              r == step(chip8, overflow_checks, rnd)
              arm == IF f.st = Running
                     THEN decode(f.op[1], f.op[2], f.op[3], f.op[4]) ELSE "none"
          IN /\ chip8' = r.m
             /\ status' = r.st
             /\ hist' = << [m |-> chip8, op |-> f.op] >>
                        \o (IF hist = <<>> THEN <<>> ELSE << hist[1] >>)
             /\ calls' = track_calls(calls, arm, chip8, r.st = Running)
             /\ timers' = track_timers(timers, arm, r.m, r.st = Running)
             /\ odd_target' = track_targets(odd_target, arm, chip8, f.op)
    /\ UNCHANGED <<rom, overflow_checks, host>>

\* main.rs App::run, the KeyCode::Char arms: self.chip8.input = k
HostInput ==
    /\ status = Running
    /\ \E k \in 0..MaxKey : chip8' = [chip8 EXCEPT !.input = k]
    /\ UNCHANGED <<rom, overflow_checks, status, hist, calls, timers, odd_target, host>>

Next == New \/ Step \/ HostInput

\* no App: the machine is driven directly (every tick steps, as in bin/gui.rs)
NoApp == [paused |-> FALSE, mode |-> "none", tick_count |-> 0, toggles |-> 0]

\* The program started on one ROM image of roms, built one way or the other
InitWith(roms) ==
    /\ rom \in roms
    /\ overflow_checks \in BOOLEAN
    /\ status = "start"
    /\ chip8 = NoChip8
    /\ hist = <<>>
    /\ calls = NoCalls
    /\ timers = NoTimers
    /\ odd_target = FALSE
    /\ host = NoApp

----------------------------------------------------------------------------
(* ROM images.  An instruction is two bytes, high nibbles first.           *)

Ins(n1, n2, n3, n4) == << n1 * 16 + n2, n3 * 16 + n4 >>
InsAddr(n1, nnn) == Ins(n1, nnn \div 256, (nnn \div 16) % 16, nnn % 16)
InsImm(n1, x, nn) == Ins(n1, x, nn \div 16, nn % 16)

RECURSIVE Concat(_)
Concat(seqs) == IF seqs = <<>> THEN <<>> ELSE Head(seqs) \o Concat(Tail(seqs))

\* the address of the k-th instruction (k = 0, 1, ..) of a ROM
At(k) == PROGRAM_START + 2 * k

\* k nested calls: the main program calls subroutine 1 and then loops in place;
\* subroutine j < k calls subroutine j + 1 and returns; subroutine k returns.
MaxCalls == 16
Sub(j) == At(2 * j)
CallChain(k) ==
    InsAddr(2, Sub(1)) \o InsAddr(1, At(1))
    \o Concat([j \in 1..(k - 1) |-> InsAddr(2, Sub(j + 1)) \o Ins(0, 0, 14, 14)])
    \o Ins(0, 0, 14, 14)

CallRoms == { CallChain(k) : k \in 1..MaxCalls }

InitCall == InitWith(CallRoms)
SpecCall == InitCall /\ [][Next]_vars

----------------------------------------------------------------------------
\* a call was outstanding when the last step, a RET, began
OutstandingBeforeRet ==
    IF status = Running THEN calls.last # NoSite ELSE calls.open # <<>>

(* C1: call/return is LIFO.  Every CALL completes and raises SP by exactly  *)
(* 1; every RET executed with a call outstanding completes, lowers SP by    *)
(* exactly 1 and resumes at the call site of the latest unreturned CALL     *)
(* plus 2; with every call returned from, SP is what it was before them.    *)
C1_CallReturnLIFO ==
    /\ FetchedArm = "CALL" =>
          /\ status = Running
          /\ chip8.stack_pointer = Prev.stack_pointer + 1
    /\ FetchedArm = "RET" /\ OutstandingBeforeRet =>
          /\ status = Running
          /\ chip8.stack_pointer = Prev.stack_pointer - 1
          /\ chip8.program_counter = calls.last + 2
    /\ status = Running /\ ~calls.unmatched =>
          chip8.stack_pointer = Len(calls.open)

(* C16: along a run in which executed RETs never outnumber executed CALLs,  *)
(* SP equals the number of outstanding calls, and whenever SP > 0 the slot  *)
(* stack[SP] holds the call-site address of the latest unreturned CALL.     *)
C16_StackPointerInvariant ==
    status = Running /\ ~calls.unmatched =>
        /\ chip8.stack_pointer = Len(calls.open)
        /\ chip8.stack_pointer > 0 =>
              chip8.stack[chip8.stack_pointer] = calls.open[Len(calls.open)]

\* a return from the innermost of several nested calls left SP at the slot of
\* the call below it
C16_Witness ==
    /\ FetchedArm = "RET" /\ status = Running /\ ~calls.unmatched
    /\ Prev.stack_pointer >= 3
    /\ chip8.stack_pointer = Prev.stack_pointer - 1
    /\ chip8.stack[chip8.stack_pointer] = calls.open[Len(calls.open)]
    /\ chip8.stack[chip8.stack_pointer] # Prev.stack[Prev.stack_pointer]

(* C24: in a run from new(rom) with at most 16 outstanding CALLs, every     *)
(* stack read and write of CALL and RET stays inside the 16-slot stack      *)
(* array: all 16 slots are usable for nested calls.                         *)
C24_StackCapacity ==
    /\ FetchedArm \in {"CALL", "RET"} /\ ~calls.unmatched /\ Len(calls.open) < STACK_SIZE
          => status # PanicBounds
    /\ status = Running /\ ~calls.unmatched => chip8.stack_pointer < STACK_SIZE

----------------------------------------------------------------------------
(* Single instructions, listed in the opcode table or not, run as the first *)
(* instruction of a ROM or after a prologue that starts both timers.        *)

\* V0 = 3; delay = V0; sound = V0
TimerPrologue == InsImm(6, 0, 3) \o Ins(15, 0, 1, 5) \o Ins(15, 0, 1, 8)

DecodeWords ==
         { <<0, n2, n3, n4>> : n2 \in {0, 1}, n3 \in {0, 14}, n4 \in {0, 1, 3, 14, 15} }
    \cup { <<n1, 1, 2, n4>> : n1 \in {5, 8, 9}, n4 \in 0..15 }
    \cup { <<14, 1, n3, n4>> : n3 \in {0, 9, 10}, n4 \in {0, 1, 14, 15} }
    \cup { <<15, 1, n3, n4>> : n3 \in {0, 1, 2, 3, 5, 6, 7},
                               n4 \in {0, 3, 5, 7, 8, 9, 10, 14} }

DecodeRoms ==
         { Ins(w[1], w[2], w[3], w[4]) : w \in DecodeWords }
    \cup { TimerPrologue \o Ins(w[1], w[2], w[3], w[4]) :
              w \in { <<0, 1, 2, 3>>, <<5, 1, 2, 3>>, <<8, 1, 2, 8>>, <<15, 1, 0, 0>> } }

Init == InitWith(DecodeRoms)
Spec == Init /\ [][Next]_vars

\* The opcode table of the specification: the patterns that are instructions.
Listed(n1, n2, n3, n4) ==
    \/ n1 = 0 /\ n2 = 0 /\ n3 = 14 /\ n4 \in {0, 14}
    \/ n1 \in {1, 2, 3, 4, 6, 7, 10, 11, 12, 13}
    \/ n1 \in {5, 9} /\ n4 = 0
    \/ n1 = 8 /\ n4 \in {0, 1, 2, 3, 4, 5, 6, 7, 14}
    \/ n1 = 14 /\ << n3, n4 >> \in { <<9, 14>>, <<10, 1>> }
    \/ n1 = 15 /\ << n3, n4 >> \in { <<0, 7>>, <<0, 10>>, <<1, 5>>, <<1, 8>>, <<1, 14>>,
                                    <<2, 9>>, <<3, 3>>, <<5, 5>>, <<6, 5>> }

FetchedListed ==
    Stepped /\ Fetched # <<>> /\ Listed(Fetched[1], Fetched[2], Fetched[3], Fetched[4])
FetchedUnlisted ==
    Stepped /\ Fetched # <<>> /\ ~Listed(Fetched[1], Fetched[2], Fetched[3], Fetched[4])

----------------------------------------------------------------------------
(* Instructions that index memory through I, with I near the end of memory  *)

\* I = nnn (plus V1 = 255 added to it when far), then the instruction w
IndexRom(nnn, far, w) ==
    InsAddr(10, nnn)
    \o (IF far THEN InsImm(6, 1, 255) \o Ins(15, 1, 1, 14) ELSE <<>>)
    \o Ins(w[1], w[2], w[3], w[4])

IndexRoms ==
    { IndexRom(nnn, far, w) :
        nnn \in {768, 4092, 4093, 4094, 4095}, far \in BOOLEAN,
        w \in { <<13, 0, 0, 0>>, <<13, 0, 0, 1>>, <<13, 0, 0, 2>>, <<15, 0, 3, 3>>,
                <<15, 0, 5, 5>>, <<15, 2, 5, 5>>, <<15, 0, 6, 5>>, <<15, 2, 6, 5>> } }

InitIndex == InitWith(IndexRoms)
SpecIndex == InitIndex /\ [][Next]_vars

----------------------------------------------------------------------------
(* C2: once an instruction of the opcode table has been fetched, the step   *)
(* completes: no index is out of bounds and no arithmetic aborts.           *)
C2_ExecuteTotal == FetchedListed => status = Running

(* C3: an instruction that matches no pattern of the opcode table makes     *)
(* step fail with the unimplemented-instruction condition.                  *)
C3_UnlistedIsFatal == FetchedUnlisted => status = PanicTodo

(* C4: when step fails on an unrecognized opcode, the machine is exactly as *)
(* the step found it: nothing written, the program counter not advanced,    *)
(* the timers not decremented.                                              *)
C4_FailureLeavesState == status = PanicTodo => chip8 = Prev

\* the failure happened with both timers running
C4_Witness ==
    /\ status = PanicTodo
    /\ FetchedUnlisted
    /\ chip8.delay > 0
    /\ chip8.sound > 0

----------------------------------------------------------------------------
(* C15: 00EE executed with SP = 0 completes: it sets the program counter to *)
(* stack[0] + 2, wraps the stack pointer to 0xFF, and leaves the stack      *)
(* contents and everything else as they were.                               *)
C15_UnmatchedReturn ==
    FetchedArm = "RET" /\ Prev.stack_pointer = 0 =>
        /\ status = Running
        /\ chip8 = [Prev EXCEPT !.program_counter = Prev.stack[0] + 2,
                                !.stack_pointer = 255,
                                !.input = chip8.input,
                                !.delay = chip8.delay,
                                !.sound = chip8.sound]

----------------------------------------------------------------------------
(* Jumps: the program jumps to its k-th instruction and from there to nnn   *)

JumpRom(k, nnn) ==
    InsAddr(1, At(k)) \o Concat([j \in 1..(k - 1) |-> Ins(0, 0, 0, 0)]) \o InsAddr(1, nnn)

JumpTargets == (0..3) \cup { At(k) : k \in 0..3 } \cup {4094, 4095}
JumpRoms == { JumpRom(k, nnn) : k \in 1..3, nnn \in JumpTargets }

InitJump == InitWith(JumpRoms)
SpecJump == InitJump /\ [][Next]_vars

FetchedAddr == Fetched[2] * 256 + Fetched[3] * 16 + Fetched[4]

(* C5: a step executing 1nnn completes and leaves the program counter equal *)
(* to nnn, for every nnn in 0..0xFFF, 0 and 1 included.                     *)
C5_JumpLandsOnTarget ==
    FetchedArm = "JP" => status = Running /\ chip8.program_counter = FetchedAddr

----------------------------------------------------------------------------
(* Skips: Vx and Vy are loaded, then one instruction of the skip family     *)

SkipRegs == {0, 7, 15}
SkipVals == {0, 1, 255}

SkipRoms ==
         { InsImm(6, x, v) \o InsImm(n1, x, nn) :
              n1 \in {3, 4}, x \in SkipRegs, v \in SkipVals, nn \in SkipVals }
    \cup { InsImm(6, x, v) \o InsImm(6, y, w) \o Ins(n1, x, y, 0) :
              n1 \in {5, 9}, x \in SkipRegs, y \in SkipRegs,
              v \in SkipVals, w \in SkipVals }

InitSkip == InitWith(SkipRoms)
SpecSkip == InitSkip /\ [][Next]_vars

FetchedByte == Fetched[3] * 16 + Fetched[4]

\* the skip condition of the fetched instruction, on the registers it found
SkipCondition ==
    LET vx == Prev.registers[Fetched[2]]
        vy == Prev.registers[Fetched[3]]
    IN CASE Fetched[1] = 3 -> vx = FetchedByte
         [] Fetched[1] = 4 -> vx # FetchedByte
         [] Fetched[1] = 5 -> vx = vy
         [] Fetched[1] = 9 -> vx # vy

FetchedSkip ==
    \/ FetchedArm \in {"3xnn", "4xnn", "9xy0"}
    \/ FetchedArm = "5xy" /\ Fetched[4] = 0

(* C6: a step executing 3xnn, 4xnn, 5xy0 or 9xy0 completes, advances the    *)
(* program counter by 4 when the skip condition holds and by 2 otherwise,   *)
(* and changes no register.                                                 *)
C6_SkipFamily ==
    FetchedSkip =>
        /\ status = Running
        /\ chip8.program_counter
              = Prev.program_counter + (IF SkipCondition THEN 4 ELSE 2)
        /\ chip8.registers = Prev.registers

\* 5xy0 skipped on two different registers both holding 255
C6_Witness ==
    /\ FetchedArm = "5xy" /\ Fetched[4] = 0
    /\ Fetched[2] # Fetched[3]
    /\ Prev.registers[Fetched[2]] = 255
    /\ Prev.registers[Fetched[3]] = 255
    /\ status = Running
    /\ chip8.program_counter = Prev.program_counter + 4

----------------------------------------------------------------------------
(* Timers: delay = d and sound = s are set, then the program loops in place *)

MaxTimer == 3

\* V0 = d; delay = V0; V1 = s; sound = V1; clear; jump to self
TimerRom(d, s) ==
    InsImm(6, 0, d) \o Ins(15, 0, 1, 5) \o InsImm(6, 1, s) \o Ins(15, 1, 1, 8)
    \o Ins(0, 0, 14, 0) \o InsAddr(1, At(5))

TimerRoms ==
    { TimerRom(d, s) : d \in 0..MaxTimer, s \in 0..MaxTimer }
    \cup { TimerRom(255, 0), TimerRom(1, 255) }

InitTimer == InitWith(TimerRoms)
SpecTimer == InitTimer /\ [][Next]_vars

(* C7: over completed steps that do not execute Fx15 (Fx18), the delay      *)
(* (sound) timer decreases by exactly 1 per step while it is above 0 and    *)
(* stays 0 once it is 0: k steps after it was left at N it holds            *)
(* max(N - k, 0), and it never wraps to 255.                                *)
C7_TimerDecay ==
    status = Running /\ Stepped =>
        /\ FetchedArm # "Fx15" =>
              chip8.delay = IF Prev.delay > 0 THEN Prev.delay - 1 ELSE 0
        /\ FetchedArm # "Fx18" =>
              chip8.sound = IF Prev.sound > 0 THEN Prev.sound - 1 ELSE 0
        /\ chip8.delay = timers.delay_set - timers.delay_age
        /\ chip8.sound = timers.sound_set - timers.sound_age

\* both timers were running, have reached 0 and stayed 0 over a further step
C7_Witness ==
    /\ status = Running /\ Stepped
    /\ FetchedArm \notin {"Fx15", "Fx18"}
    /\ timers.delay_set > 1 /\ timers.delay_age = timers.delay_set
    /\ timers.sound_set > 1 /\ timers.sound_age = timers.sound_set
    /\ Prev.delay = 0 /\ chip8.delay = 0
    /\ Prev.sound = 0 /\ chip8.sound = 0

----------------------------------------------------------------------------
(* Draws: Vx and Vy are loaded, I is set, and the same Dxyn is executed     *)
(* twice in succession on the display new left all zero.                    *)

\* sprites: the font glyph 0 at address 0; the last font byte followed by
\* zero bytes at 79; zero bytes at 768
SpriteAddrs == {0, 79, 768}

DrawRom(x, y, px, py, n, addr) ==
    InsImm(6, x, px) \o InsImm(6, y, py) \o InsAddr(10, addr)
    \o Ins(13, x, y, n) \o Ins(13, x, y, n)

DrawRoms ==
    { DrawRom(xy[1], xy[2], px, py, n, addr) :
        xy \in { <<0, 1>>, <<1, 1>>, <<15, 1>>, <<1, 15>> },
        px \in {0, 8, 60}, py \in {0, 30}, n \in {0, 1, 5}, addr \in SpriteAddrs }

InitDraw == InitWith(DrawRoms)
SpecDraw == InitDraw /\ [][Next]_vars

DisplayZero(m) == \A k \in DOMAIN m.display : m.display[k] = 0

\* the last two steps executed the same Dxyn with the same I and the same
\* sprite bytes, the first of them on an all-zero display, and both completed
DrewTwice ==
    /\ Len(hist) = 2
    /\ FetchedArm = "Dxyn"
    /\ hist[2].op = hist[1].op
    /\ DisplayZero(hist[2].m)
    /\ hist[2].m.i = hist[1].m.i
    /\ hist[2].m.memory = hist[1].m.memory
    /\ status = Running

\* the second draw found Vx and Vy as the first did
SameCoordinates ==
    /\ hist[2].m.registers[Fetched[2]] = hist[1].m.registers[Fetched[2]]
    /\ hist[2].m.registers[Fetched[3]] = hist[1].m.registers[Fetched[3]]

\* some of the n sprite bytes is not 0
SpriteNonZero ==
    \E r \in 0..(Fetched[4] - 1) : Prev.memory[Prev.i + r] # 0

----------------------------------------------------------------------------
(* Construction: ROM images of every length around the capacity.  The first *)
(* two bytes are a jump to 0x200, the others depend on their position.      *)

RomCapacity == MEMORY_SIZE - PROGRAM_START

SizeRom(len, seed) ==
    [k \in 1..len |-> IF k = 1 THEN 18 ELSE IF k = 2 THEN 0 ELSE (k * seed + 1) % U8_MOD]

SizeRoms ==
    { SizeRom(len, seed) :
        len \in (0..3) \cup ((RomCapacity - 1)..(RomCapacity + MaxOversize))
                \cup {MEMORY_SIZE, MEMORY_SIZE + 1},
        seed \in {3, 7} }

InitNew == InitWith(SizeRoms)
SpecNew == InitNew /\ [][Next]_vars

\* new has returned and no step has been taken
Constructed == status # "start" /\ ~Stepped

(* C9: for a ROM of length L <= 3584, new returns a machine whose memory    *)
(* holds the font at [0, 80), the ROM at [0x200, 0x200 + L) and 0 elsewhere,*)
(* with registers, I, stack, SP, timers and display 0 and PC = 0x200.       *)
C9_Construction ==
    Len(rom) <= 3584 /\ Constructed =>
        /\ status = Running
        /\ DOMAIN chip8.memory = 0..(MEMORY_SIZE - 1)
        /\ \A a \in 0..(MEMORY_SIZE - 1) :
              chip8.memory[a] =
                 IF a < 80 THEN CHARACTERS[a + 1]
                 ELSE IF a >= 512 /\ a < 512 + Len(rom) THEN rom[a - 512 + 1]
                 ELSE 0
        /\ chip8.registers = [k \in 0..15 |-> 0]
        /\ chip8.i = 0
        /\ chip8.stack = [k \in 0..15 |-> 0]
        /\ chip8.stack_pointer = 0
        /\ chip8.delay = 0 /\ chip8.sound = 0
        /\ chip8.display = [k \in 0..255 |-> 0]
        /\ chip8.program_counter = 512

\* a ROM that fills the program memory to its last byte
C9_Witness ==
    /\ Constructed /\ status = Running
    /\ Len(rom) = 3584
    /\ chip8.memory[4095] = rom[3584]
    /\ chip8.memory[4095] # 0

(* C10: for a ROM longer than 3584 bytes construction is rejected: no       *)
(* machine is produced, in particular none holding a part of the ROM.       *)
C10_OversizeRejected ==
    Len(rom) > 3584 => chip8 = NoChip8 /\ status \in {"start", PanicBounds}

C10_Witness == Len(rom) = 3585 /\ status = PanicBounds /\ chip8 = NoChip8

----------------------------------------------------------------------------
(* Clear: a glyph is drawn, the timers are started, a call is made (or      *)
(* not), and then 00E0 is executed; the last ROM clears as its first step.  *)

\* V1 = v; I = 5; draw 5 rows at (V0, V0); delay = V1; sound = V1;
\* call the next instruction (or jump to it); clear; jump to self
ClearRom(v, call) ==
    InsImm(6, 1, v) \o InsAddr(10, 5) \o Ins(13, 0, 0, 5)
    \o Ins(15, 1, 1, 5) \o Ins(15, 1, 1, 8)
    \o InsAddr(IF call THEN 2 ELSE 1, At(6)) \o Ins(0, 0, 14, 0) \o InsAddr(1, At(7))

ClearRoms ==
    { ClearRom(v, call) : v \in {0, 2, 5}, call \in BOOLEAN }
    \cup { Ins(0, 0, 14, 0) \o InsAddr(1, At(1)) }

InitClear == InitWith(ClearRoms)
SpecClear == InitClear /\ [][Next]_vars

\* the transition is a step (the host's key presses leave the history alone)
StepTaken == status = Running /\ hist' # hist

(* C11: one step on 00E0 completes, leaves every display byte 0 and the     *)
(* program counter increased by exactly 2, and leaves memory, registers, I, *)
(* stack, SP and input unchanged; with both timers at 0 the machine after   *)
(* the step is the machine before it except for display and program counter.*)
C11_Clear ==
    [][ StepTaken /\ FetchedArm' = "CLS" =>
          /\ status' = Running
          /\ DisplayZero(chip8')
          /\ chip8'.program_counter = chip8.program_counter + 2
          /\ chip8'.memory = chip8.memory
          /\ chip8'.registers = chip8.registers
          /\ chip8'.i = chip8.i
          /\ chip8'.stack = chip8.stack
          /\ chip8'.stack_pointer = chip8.stack_pointer
          /\ chip8'.input = chip8.input
          /\ (chip8.delay = 0 /\ chip8.sound = 0 =>
                chip8' = [chip8 EXCEPT !.display = [k \in 0..(DISPLAY_SIZE - 1) |-> 0],
                                       !.program_counter = chip8.program_counter + 2])
      ]_vars

\* a drawn display was cleared inside a call, with a key pressed and timers running
C11_Witness ==
    /\ FetchedArm = "CLS" /\ status = Running
    /\ ~DisplayZero(Prev) /\ DisplayZero(chip8)
    /\ Prev.stack_pointer = 1 /\ chip8.stack_pointer = 1
    /\ Prev.i = 5 /\ chip8.i = 5
    /\ Prev.input = 1
    /\ Prev.delay > 0

\* the display was cleared with both timers at 0
C11_WitnessIdle ==
    /\ FetchedArm = "CLS" /\ status = Running
    /\ ~DisplayZero(Prev) /\ DisplayZero(chip8)
    /\ Prev.delay = 0 /\ Prev.sound = 0

----------------------------------------------------------------------------
(* Flag arithmetic: Vx and Vy are loaded, then 8xy4, 8xy5 or 8xy7           *)

FlagPairs == { <<0, 1>>, <<1, 0>>, <<1, 1>>, <<15, 1>>, <<1, 15>>, <<15, 15>> }
FlagVals == {0, 1, 128, 255}

FlagRoms ==
    { InsImm(6, xy[1], v) \o InsImm(6, xy[2], w) \o Ins(8, xy[1], xy[2], n4) :
        xy \in FlagPairs, v \in FlagVals, w \in FlagVals, n4 \in {4, 5, 7} }

InitFlag == InitWith(FlagRoms)
SpecFlag == InitFlag /\ [][Next]_vars

FetchedFlagOp == FetchedArm \in {"8xy4", "8xy5", "8xy7"}

\* the mathematical result of the fetched 8xy4 / 8xy5 / 8xy7 on the registers
\* it found
FlagResult ==
    LET vx == Prev.registers[Fetched[2]]
        vy == Prev.registers[Fetched[3]]
    IN CASE Fetched[4] = 4 -> vx + vy
         [] Fetched[4] = 5 -> vx - vy
         [] Fetched[4] = 7 -> vy - vx

(* C12: after 8xy4 VF is 1 if Vx + Vy > 255 else 0; after 8xy5 VF is 1 if   *)
(* Vx >= Vy else 0; after 8xy7 VF is 1 if Vy >= Vx else 0; for x # F the    *)
(* register Vx holds the result modulo 256; for x = F the flag is what VF   *)
(* holds.  The step completes for all values.                               *)
C12_FlagArithmetic ==
    FetchedFlagOp =>
        /\ status = Running
        /\ chip8.registers[15] =
              IF Fetched[4] = 4
              THEN (IF FlagResult > 255 THEN 1 ELSE 0)
              ELSE (IF FlagResult >= 0 THEN 1 ELSE 0)
        /\ Fetched[2] # 15 => chip8.registers[Fetched[2]] = FlagResult % 256
        /\ \A k \in 0..14 : k # Fetched[2] => chip8.registers[k] = Prev.registers[k]

\* 8xy5 on two different registers holding the same non-zero value: no borrow
C12_Witness ==
    /\ FetchedArm = "8xy5" /\ status = Running
    /\ Fetched[2] # Fetched[3] /\ Fetched[2] # 15
    /\ Prev.registers[Fetched[2]] = 128 /\ Prev.registers[Fetched[3]] = 128
    /\ chip8.registers[Fetched[2]] = 0
    /\ chip8.registers[15] = 1

----------------------------------------------------------------------------
(* Random bytes: V1 is loaded, Cxnn is executed, then one other instruction *)

\* key wait, draw, decimal digits, jump to self, add with carry
RandomFollowers ==
    { <<15, 0, 0, 10>>, <<13, 0, 1, 5>>, <<15, 1, 3, 3>>, <<1, 2, 0, 4>>, <<8, 0, 1, 4>> }

RandomRom(x, nn, w) ==
    InsImm(6, 1, 7) \o InsImm(12, x, nn) \o Ins(w[1], w[2], w[3], w[4])

RandomRoms ==
    { RandomRom(x, nn, w) : x \in {1, 15}, nn \in {0, 128}, w \in RandomFollowers }

InitRandom == InitWith(RandomRoms)
SpecRandom == InitRandom /\ [][Next]_vars

\* two outcomes of a step that differ at most in register x
SameExceptRegister(a, b, x) ==
    /\ a.st = b.st
    /\ [a.m EXCEPT !.registers[x] = 0] = [b.m EXCEPT !.registers[x] = 0]

C13_WitnessInput ==
    /\ FetchedArm = "Fx0A" /\ status = Running
    /\ Len(hist) = 2 /\ Prev.input = 1 /\ chip8.registers[Fetched[2]] = 1

----------------------------------------------------------------------------
(* Control flow: V0 is loaded, a subroutine is called and returns, and then *)
(* one of 1nnn, 2nnn, Bnnn is executed on an even or an odd address.        *)

\* V0 = v; CALL the RET at instruction 3; the instruction n1 nnn; RET
FlowRom(v, n1, nnn) ==
    InsImm(6, 0, v) \o InsAddr(2, At(3)) \o InsAddr(n1, nnn) \o Ins(0, 0, 14, 14)

FlowTargets == {0, At(2), At(2) + 1, At(3), 768, 4095}

FlowRoms ==
    { FlowRom(v, n1, nnn) : v \in {0, 1, 2, 255}, n1 \in {1, 2, 11}, nnn \in FlowTargets }

InitFlow == InitWith(FlowRoms)
SpecFlow == InitFlow /\ [][Next]_vars

(* C14 as claimed: the program counter is even in every state reachable     *)
(* from new(rom), whatever 1nnn, 2nnn, Bnnn and 00EE are executed.          *)
C14_PcEven ==
    chip8 # NoChip8 => chip8.program_counter % 2 = 0

(* C14 as amended: the program counter is even in every state reachable     *)
(* from new(rom) along a run in which no executed 1nnn or 2nnn names an odd *)
(* nnn and no executed Bnnn finds V0 + nnn odd.                             *)
C14_PcEvenAmended ==
    chip8 # NoChip8 /\ ~odd_target => chip8.program_counter % 2 = 0

\* after a call and its return, Bnnn jumped on a non-zero even V0
C14_Witness ==
    /\ FetchedArm = "Bnnn" /\ status = Running /\ ~odd_target
    /\ Len(hist) = 2 /\ hist[2].op = <<0, 0, 14, 14>>
    /\ Prev.registers[0] = 2
    /\ chip8.program_counter # Prev.program_counter + 2
    /\ chip8.program_counter % 2 = 0

(* C17: a step executing Bnnn completes and leaves the program counter      *)
(* equal to V0 + nnn: the +2 advance is not applied on top of it.           *)
C17_JumpWithOffset ==
    FetchedArm = "Bnnn" =>
        /\ status = Running
        /\ chip8.program_counter = Prev.registers[0] + FetchedAddr

----------------------------------------------------------------------------
(* Font address: Vx is loaded, then Fx29                                    *)

FontRoms ==
    { InsImm(6, x, v) \o Ins(15, x, 2, 9) : x \in {0, 1, 10, 15}, v \in {0, 1, 5, 10, 15, 255} }

InitFont == InitWith(FontRoms)
SpecFont == InitFont /\ [][Next]_vars

(* C18: after a step executing Fx29, I is 5 times the value held in Vx (not *)
(* 5 times the index x), so for Vx in 0..15 the five bytes at I are the     *)
(* font glyph of the digit Vx.                                              *)
C18_FontAddress ==
    FetchedArm = "Fx29" =>
        LET vx == Prev.registers[Fetched[2]]
        IN /\ status = Running
           /\ chip8.i = 5 * vx
           /\ vx <= 15 =>
                 \A k \in 0..4 : chip8.memory[chip8.i + k] = CHARACTERS[5 * vx + k + 1]

----------------------------------------------------------------------------
(* Additions: Vx (and Vy) are loaded, then 7xnn or 8xy0                     *)

AddVals == {0, 1, 128, 255}

AddRoms ==
         { InsImm(6, x, v) \o InsImm(7, x, nn) :
              x \in {1, 15}, v \in AddVals, nn \in AddVals }
    \cup { InsImm(6, xy[1], v) \o InsImm(6, xy[2], w) \o Ins(8, xy[1], xy[2], 0) :
              xy \in { <<0, 1>>, <<1, 1>>, <<15, 1>>, <<1, 15>> },
              v \in AddVals, w \in AddVals }

InitAdd == InitWith(AddRoms)
SpecAdd == InitAdd /\ [][Next]_vars

\* what the fetched 7xnn or 8xy0 adds to Vx
Addend ==
    IF FetchedArm = "7xnn" THEN FetchedByte ELSE Prev.registers[Fetched[3]]

(* C19: a step executing 7xnn leaves Vx = (Vx + nn) mod 256 and a step      *)
(* executing 8xy0 leaves Vx = (Vx + Vy) mod 256; the step completes also    *)
(* when the sum exceeds 255, and no other register (VF included, for        *)
(* x # F) is modified.                                                      *)
C19_WrappingAdd ==
    FetchedArm \in {"7xnn", "8xy0"} =>
        /\ status = Running
        /\ chip8.registers =
              [Prev.registers EXCEPT
                 ![Fetched[2]] = (Prev.registers[Fetched[2]] + Addend) % 256]

----------------------------------------------------------------------------
\* the display index the fetched Dxyn has for its row r, as an integer
DrawIndex(r) ==
    Prev.registers[Fetched[2]] \div 8 + (Prev.registers[Fetched[3]] + r) * 8

\* the sprite rows of the fetched Dxyn
DrawRowsOf == 0..(Fetched[4] - 1)

\* some bit of the display was 1 before row r was XOR-ed onto it and 0 after
RowClearsBit(r) ==
    \E k \in 0..7 :
        /\ Bit(Prev.display[DrawIndex(r)], k) = 1
        /\ Bit(chip8.display[DrawIndex(r)], k) = 0

(* C20: a step executing Dxyn completes and, for each row r in 0..n-1, XORs *)
(* memory[I + r] onto the display byte at index Vx/8 + (Vy + r)*8; every    *)
(* other display byte and all of memory are unchanged; VF is 1 if in some   *)
(* row a bit that was 1 before the XOR is 0 after it, else 0.               *)
C20_Draw ==
    FetchedArm = "Dxyn" =>
        /\ status = Running
        /\ \A r \in DrawRowsOf :
              /\ DrawIndex(r) \in DOMAIN Prev.display
              /\ chip8.display[DrawIndex(r)]
                    = (Prev.display[DrawIndex(r)] + Prev.memory[Prev.i + r]
                       - 2 * BitAnd(Prev.display[DrawIndex(r)], Prev.memory[Prev.i + r], 8))
        /\ \A k \in DOMAIN Prev.display :
              k \notin { DrawIndex(r) : r \in DrawRowsOf } =>
                  chip8.display[k] = Prev.display[k]
        /\ chip8.memory = Prev.memory
        /\ chip8.registers[15]
              = IF \E r \in DrawRowsOf : RowClearsBit(r) THEN 1 ELSE 0

\* every row of the fetched Dxyn lies on the 32 lines of the display
DrawOnScreen ==
    \A r \in DrawRowsOf : Prev.registers[Fetched[3]] + r < HEIGHT_BYTE

----------------------------------------------------------------------------
(* Timer writes and reads: V0 = d; delay = V0; V1 = delay; sound = V0;      *)
(* V2 = delay; V3 = delay                                                   *)

TimerOrderRom(d) ==
    InsImm(6, 0, d) \o Ins(15, 0, 1, 5) \o Ins(15, 1, 0, 7) \o Ins(15, 0, 1, 8)
    \o Ins(15, 2, 0, 7) \o Ins(15, 3, 0, 7)

TimerOrderRoms == { TimerOrderRom(d) : d \in (0..MaxTimer) \cup {255} }

InitTimerOrder == InitWith(TimerOrderRoms)
SpecTimerOrder == InitTimerOrder /\ [][Next]_vars

\* a timer holding v, after the end-of-step decrement
Decremented(v) == IF v > 0 THEN v - 1 ELSE 0

(* C21: a step executing Fx15 (Fx18) with Vx = N assigns the timer before   *)
(* the end-of-step decrement: after the step delay (sound) is N - 1 when    *)
(* N > 0 and 0 when N = 0; a step executing Fx07 stores in Vx the delay     *)
(* value from before that step's decrement.                                 *)
C21_TimerOrdering ==
    /\ FetchedArm = "Fx15" =>
          status = Running /\ chip8.delay = Decremented(Prev.registers[Fetched[2]])
    /\ FetchedArm = "Fx18" =>
          status = Running /\ chip8.sound = Decremented(Prev.registers[Fetched[2]])
    /\ FetchedArm = "Fx07" =>
          /\ status = Running
          /\ chip8.registers[Fetched[2]] = Prev.delay
          /\ chip8.delay = Decremented(Prev.delay)

\* Fx07 read a running delay timer: Vx holds one more than the timer now does
C21_Witness ==
    /\ FetchedArm = "Fx07" /\ status = Running
    /\ Prev.delay > 1
    /\ chip8.registers[Fetched[2]] = Prev.delay
    /\ chip8.delay = Prev.delay - 1

\* Fx15 with Vx = 0 left the delay timer at 0
C21_WitnessZero ==
    /\ FetchedArm = "Fx15" /\ status = Running
    /\ Prev.registers[Fetched[2]] = 0 /\ chip8.delay = 0

----------------------------------------------------------------------------
(* Register save and restore: V0..V2 are loaded, I is set, Fx55 saves,      *)
(* V0..V2 are overwritten, and Fx65 with the same x and I restores.         *)

SaveRom(x, addr) ==
    InsImm(6, 0, 11) \o InsImm(6, 1, 22) \o InsImm(6, 2, 33) \o InsAddr(10, addr)
    \o Ins(15, x, 5, 5)
    \o InsImm(6, 0, 1) \o InsImm(6, 1, 2) \o InsImm(6, 2, 3)
    \o Ins(15, x, 6, 5)

\* the value SaveRom left in Vk before its Fx55
SavedValue(k) == IF k <= 2 THEN 11 * (k + 1) ELSE 0

SaveRoms == { SaveRom(x, addr) : x \in {0, 1, 2, 15}, addr \in {768, 4080, 4094, 4095} }

InitSave == InitWith(SaveRoms)
SpecSave == InitSave /\ [][Next]_vars

\* the addresses I .. I + x of the fetched Fx55 / Fx65
SaveRange == { Prev.i + k : k \in 0..Fetched[2] }

(* C22: Fx55 copies exactly V0..Vx to memory[I..I+x], Fx65 copies exactly   *)
(* memory[I..I+x] to V0..Vx; both leave I, the registers above Vx and the   *)
(* memory outside [I, I+x] unchanged; so Fx55, a change of V0..Vx and Fx65  *)
(* with the same x and I restore V0..Vx to the saved values.                *)
C22_SaveRestore ==
    /\ FetchedArm = "Fx55" =>
          /\ status = Running
          /\ \A k \in 0..Fetched[2] : chip8.memory[Prev.i + k] = Prev.registers[k]
          /\ \A a \in DOMAIN Prev.memory :
                a \notin SaveRange => chip8.memory[a] = Prev.memory[a]
          /\ chip8.registers = Prev.registers
          /\ chip8.i = Prev.i
    /\ FetchedArm = "Fx65" =>
          /\ status = Running
          /\ \A k \in 0..Fetched[2] : chip8.registers[k] = Prev.memory[Prev.i + k]
          /\ \A k \in (Fetched[2] + 1)..(NUM_REGISTERS - 1) :
                chip8.registers[k] = Prev.registers[k]
          /\ chip8.memory = Prev.memory
          /\ chip8.i = Prev.i
          /\ \A k \in 0..Fetched[2] : chip8.registers[k] = SavedValue(k)

\* the save range of the fetched instruction lies inside the memory
SaveInMemory == Prev.i + Fetched[2] < MEMORY_SIZE

----------------------------------------------------------------------------
(* Keys: Vx is loaded, one of Ex9E, ExA1, Fx0A is executed, then a clear    *)
(* (skipped or not) and a key read into V1.                                 *)

KeyOps == { <<14, 9, 14>>, <<14, 10, 1>>, <<15, 0, 10>> }

KeyRom(x, v, op) ==
    InsImm(6, x, v) \o Ins(op[1], x, op[2], op[3]) \o Ins(0, 0, 14, 0) \o Ins(15, 1, 0, 10)

KeyRoms == { KeyRom(x, v, op) : x \in {0, 15}, v \in {0, 1, 255}, op \in KeyOps }

InitKey == InitWith(KeyRoms)
SpecKey == InitKey /\ [][Next]_vars

\* what the last step, one of Ex9E / ExA1 / Fx0A, did with the latch it found
KeyInstructions ==
    /\ FetchedArm = "Ex9E" =>
          /\ status = Running
          /\ chip8.program_counter = Prev.program_counter
                + (IF Prev.input = Prev.registers[Fetched[2]] THEN 4 ELSE 2)
    /\ FetchedArm = "ExA1" =>
          /\ status = Running
          /\ chip8.program_counter = Prev.program_counter
                + (IF Prev.input # Prev.registers[Fetched[2]] THEN 4 ELSE 2)
    /\ FetchedArm = "Fx0A" =>
          /\ status = Running
          /\ chip8.registers = [Prev.registers EXCEPT ![Fetched[2]] = Prev.input]
          /\ chip8.program_counter = Prev.program_counter + 2

\* new leaves the latch at 0, and a step leaves it as it found it
LatchUntouched ==
    /\ status = "start" /\ status' = Running => chip8'.input = 0
    /\ StepTaken => chip8'.input = chip8.input

(* C23: no step ever modifies the input latch (initially 0, then the last   *)
(* value the host wrote); Ex9E advances the program counter by 4 iff        *)
(* input = Vx and by 2 otherwise, ExA1 by 4 iff input # Vx and by 2         *)
(* otherwise; Fx0A never waits: it copies the latch into Vx and advances    *)
(* the program counter by 2.                                                *)
C23_InputLatch == [](KeyInstructions) /\ [][LatchUntouched]_vars

\* Fx0A read a key the host had pressed, and the latch still holds it
C23_Witness ==
    /\ FetchedArm = "Fx0A" /\ status = Running
    /\ Prev.input = 1
    /\ chip8.registers[Fetched[2]] = 1
    /\ chip8.input = 1
    /\ chip8.program_counter = Prev.program_counter + 2

\* Ex9E skipped on the pressed key
C23_WitnessSkip ==
    /\ FetchedArm = "Ex9E" /\ status = Running
    /\ Prev.input = 1 /\ Prev.registers[Fetched[2]] = 1
    /\ chip8.program_counter = Prev.program_counter + 4

----------------------------------------------------------------------------
(* The terminal host (main.rs): struct App and its loop                     *)

\* ticks are counted up to MaxTicks
MaxTicks == 5

\* App::new: the mode from the paused flag, tick_count 0
app_new(paused) ==
    [paused |-> paused, mode |-> IF paused THEN "Paused" ELSE "Running",
     tick_count |-> 0, toggles |-> 0]

\* fn toggle_mode
toggle_mode(app) ==
    [app EXCEPT !.mode = IF app.mode = "Running" THEN "Paused" ELSE "Running",
                !.toggles = (app.toggles + 1) % 2]

\* on_tick stepping whatever the mode is
on_tick_always_steps(app, m, oc, rnd) ==
    [app |-> [app EXCEPT !.tick_count = app.tick_count + 1], r |-> step(m, oc, rnd)]

\* fn on_tick: tick_count += 1; step when the mode is Running
on_tick(app, m, oc, rnd) ==
    [app |-> [app EXCEPT !.tick_count = app.tick_count + 1],
     r |-> IF app.mode = "Running" THEN step(m, oc, rnd) ELSE Ok(m)]

\* fn draw, render_program: the slice memory[pc - 4 .. pc + 28].  pc - 4 is
\* computed in usize: below 4 it panics in a checked build and wraps to a start
\* past the end of the slice otherwise.
draw(m, oc) ==
    IF m.program_counter < 4 THEN (IF oc THEN PanicOverflow ELSE PanicBounds)
    ELSE IF m.program_counter + 28 > MEMORY_SIZE THEN PanicBounds
    ELSE Running

\* One turn of the loop of App::run starts with terminal.draw; after is what
\* the rest of the turn does when draw returned.  A turn that reads a key and
\* then finds the tick due is a key turn followed by a tick turn: no key arm
\* moves the program counter, so the draw between them returns as the first did.
LoopTurn(after) ==
    /\ status = Running
    /\ host.mode # "none"
    /\ LET d == draw(chip8, overflow_checks)
       IN IF d # Running
          THEN /\ status' = d
               /\ UNCHANGED <<chip8, hist, calls, timers, odd_target, host>>
          ELSE after
    /\ UNCHANGED <<rom, overflow_checks>>

\* main: App::new(cli.rom_path, cli.paused)
AppNew ==
    /\ status = "start"
    /\ LET r == new(rom)
       IN /\ chip8' = r.m
          /\ status' = r.st
          /\ host' = IF r.st = Running THEN app_new(host.paused) ELSE host
    /\ UNCHANGED <<rom, overflow_checks, hist, calls, timers, odd_target>>

\* a turn in which the tick is due and no key is read: self.on_tick()
AppTick ==
    /\ status = Running
    /\ host.mode # "none"
    /\ host.tick_count < MaxTicks
    /\ \E rnd \in RandomBytes(chip8, overflow_checks) :
          LET f == fetch(chip8, overflow_checks)
              t == on_tick(host, chip8, overflow_checks, rnd)
              stepping == host.mode = "Running"
              arm == IF f.st = Running
                     THEN decode(f.op[1], f.op[2], f.op[3], f.op[4]) ELSE "none"
          IN LoopTurn(
                /\ host' = t.app
                /\ chip8' = t.r.m
                /\ status' = t.r.st
                /\ hist' = IF stepping
                           THEN << [m |-> chip8, op |-> f.op] >>
                                \o (IF hist = <<>> THEN <<>> ELSE << hist[1] >>)
                           ELSE hist
                /\ calls' = IF stepping
                            THEN track_calls(calls, arm, chip8, t.r.st = Running)
                            ELSE calls
                /\ timers' = IF stepping
                             THEN track_timers(timers, arm, t.r.m, t.r.st = Running)
                             ELSE timers
                /\ odd_target' = IF stepping
                                 THEN track_targets(odd_target, arm, chip8, f.op)
                                 ELSE odd_target)

\* a turn that reads the space key: self = self.toggle_mode()
AppToggle ==
    /\ status = Running
    /\ LoopTurn(/\ host' = toggle_mode(host)
                /\ UNCHANGED <<status, chip8, hist, calls, timers, odd_target>>)

\* a turn that reads one of the sixteen mapped keys: self.chip8.input = k
AppKey ==
    /\ status = Running
    /\ \E k \in 0..MaxKey :
          LoopTurn(/\ chip8' = [chip8 EXCEPT !.input = k]
                   /\ UNCHANGED <<status, hist, calls, timers, odd_target, host>>)

\* a turn that reads Esc: break Ok(())
AppEsc ==
    /\ status = Running
    /\ LoopTurn(/\ status' = "exited"
                /\ UNCHANGED <<chip8, hist, calls, timers, odd_target, host>>)

NextHost == AppNew \/ AppTick \/ AppToggle \/ AppKey \/ AppEsc

\* V0 = 5; V0 += 1; jump to the addition -- and a jump to address 2, where
\* the program listing of draw cannot be sliced
HostRoms ==
    { InsImm(6, 0, 5) \o InsImm(7, 0, 1) \o InsAddr(1, At(1)),
      InsImm(6, 0, 5) \o InsAddr(1, 2) }

InitHost ==
    /\ rom \in HostRoms
    /\ overflow_checks \in BOOLEAN
    /\ status = "start"
    /\ chip8 = NoChip8
    /\ hist = <<>>
    /\ calls = NoCalls
    /\ timers = NoTimers
    /\ odd_target = FALSE
    /\ host \in { [NoApp EXCEPT !.paused = p] : p \in BOOLEAN }

SpecHost == InitHost /\ [][NextHost]_vars

\* the mode is the one App::new chose, flipped once per space key read
ModeFollowsFlag ==
    host.mode # "none" =>
        host.mode = (IF host.paused = (host.toggles = 0) THEN "Paused" ELSE "Running")

TickTaken == host'.tick_count # host.tick_count

\* what a tick does: one more tick counted; one step in Running, nothing in Paused
TickEffect ==
    TickTaken =>
        /\ host'.tick_count = host.tick_count + 1
        /\ host'.mode = host.mode
        /\ host.mode = "Running" =>
              /\ \E rnd \in RandomBytes(chip8, overflow_checks) :
                    [m |-> chip8', st |-> status'] = step(chip8, overflow_checks, rnd)
              /\ Len(hist') = Len(hist) + 1 \/ (Len(hist) = 2 /\ hist'[2] = hist[1])
              /\ hist'[1].m = chip8
        /\ host.mode = "Paused" => chip8' = chip8 /\ status' = status /\ hist' = hist

\* outside a Running tick the machine changes in its input latch at most
PausedFrame ==
    (host.mode = "Paused" \/ ~TickTaken) /\ chip8 # NoChip8 /\ chip8' # chip8 =>
        /\ chip8' = [chip8 EXCEPT !.input = chip8'.input]
        /\ ~TickTaken
        /\ hist' = hist

\* the space key: Running <-> Paused, nothing else
ToggleEffect ==
    host'.toggles # host.toggles =>
        /\ host.mode \in {"Running", "Paused"}
        /\ host'.mode = (IF host.mode = "Running" THEN "Paused" ELSE "Running")
        /\ toggle_mode(toggle_mode(host)).mode = host.mode
        /\ host'.tick_count = host.tick_count
        /\ chip8' = chip8

\* C25: in the terminal host each tick adds one to tick_count and steps the
\* machine once exactly when the mode is Running; in Paused a tick leaves the
\* machine alone and only a key writes its input latch; the space key flips
\* the mode, so two of them restore it; the first mode is Paused iff the
\* paused flag was given.
C25_PauseInHostLoop ==
    [](ModeFollowsFlag) /\ [][TickEffect /\ PausedFrame /\ ToggleEffect]_vars

\* paused after running: three ticks counted, one of them stepped
C25_Witness ==
    /\ status = Running
    /\ host.mode = "Paused"
    /\ host.tick_count >= 3
    /\ Len(hist) = 1

\* a key was read while paused
C25_WitnessKey ==
    /\ status = Running
    /\ host.mode = "Paused"
    /\ host.toggles = 0
    /\ host.tick_count >= 2
    /\ hist = <<>>
    /\ chip8.input = 1

----------------------------------------------------------------------------
(* Every arm, on a machine with a lit display, an open call and I inside   *)
(* the font                                                                 *)

\* V0 = 9, V1 = 2, I = 10, draw five rows at (9, 2), call the word under
\* test, which sits at At(5)
FramePrologue ==
    InsImm(6, 0, 9) \o InsImm(6, 1, 2) \o InsAddr(10, 10) \o Ins(13, 0, 1, 5)
    \o InsAddr(2, At(5))

FrameWords ==
         { <<0, 0, 14, 0>>, <<0, 0, 14, 14>> }
    \cup { <<1, 2, 1, 0>>, <<2, 2, 1, 0>>, <<10, 1, 2, 3>>, <<11, 2, 1, 0>> }
    \cup { <<n1, 1, 0, 9>> : n1 \in {3, 4, 6, 7, 12} }
    \cup { <<n1, 1, 0, 0>> : n1 \in {5, 9} }
    \cup { <<8, 1, 0, n4>> : n4 \in {0, 1, 2, 3, 4, 5, 6, 7, 14} }
    \cup { <<13, 0, 1, 3>>, <<14, 1, 9, 14>>, <<14, 1, 10, 1>> }
    \cup { <<15, 1, n[1], n[2]>> :
              n \in { <<0, 7>>, <<0, 10>>, <<1, 5>>, <<1, 8>>, <<1, 14>>,
                      <<2, 9>>, <<3, 3>>, <<5, 5>>, <<6, 5>> } }

FrameRoms == { FramePrologue \o Ins(w[1], w[2], w[3], w[4]) : w \in FrameWords }

InitFrame == InitWith(FrameRoms)
SpecFrame == InitFrame /\ [][Next]_vars

\* C26: a step that completes changes memory only in the arms Fx33 and Fx55,
\* the display only in 00E0 and Dxyn, the stack only in 2nnn, the stack
\* pointer only in 2nnn and 00EE, and I only in Annn, Fx1E and Fx29.
C26_FrameOfStep ==
    Stepped /\ status = Running =>
        /\ FetchedArm \notin {"Fx33", "Fx55"} => chip8.memory = Prev.memory
        /\ FetchedArm \notin {"CLS", "Dxyn"} => chip8.display = Prev.display
        /\ FetchedArm # "CALL" => chip8.stack = Prev.stack
        /\ FetchedArm \notin {"CALL", "RET"} =>
              chip8.stack_pointer = Prev.stack_pointer
        /\ FetchedArm \notin {"Annn", "Fx1E", "Fx29"} => chip8.i = Prev.i

\* the word under test was an addition; display, stack and I all hold something
C26_Witness ==
    /\ status = Running
    /\ FetchedArm = "8xy4"
    /\ chip8.stack_pointer = 1
    /\ chip8.stack[1] = At(4)
    /\ chip8.i = 10
    /\ \E k \in DOMAIN chip8.display : chip8.display[k] # 0

\* each arm the frame names does change its component
C26_WitnessWriters ==
    /\ status = Running
    /\ Stepped
    /\ \/ FetchedArm \in {"Fx33", "Fx55"} /\ chip8.memory # Prev.memory
       \/ FetchedArm \in {"CLS", "Dxyn"} /\ chip8.display # Prev.display
       \/ FetchedArm = "CALL" /\ chip8.stack # Prev.stack
       \/ FetchedArm \in {"CALL", "RET"} /\ chip8.stack_pointer # Prev.stack_pointer
       \/ FetchedArm \in {"Annn", "Fx1E", "Fx29"} /\ chip8.i # Prev.i

\* C27: in every state reached from new(rom) by steps the two bytes of the
\* next fetch lie inside memory: program_counter + 1 < 4096.
C27_FetchInBounds ==
    status = Running => chip8.program_counter + 1 < MEMORY_SIZE

\* the fetch itself: the step found the program counter at the last byte of
\* memory and indexed past it
C27_FetchPastEnd ==
    ~(/\ status = PanicBounds
      /\ Stepped
      /\ Fetched = <<>>
      /\ Prev.program_counter + 1 >= MEMORY_SIZE)

\* C28: every display index px / 8 + (py + r) * 8 that Dxyn forms in 8-bit
\* arithmetic is computed without failure and lies in 0..255: a Dxyn whose
\* sprite rows lie inside memory completes.
C28_DrawIndexInBounds ==
    FetchedArm = "Dxyn" /\ Prev.i + Fetched[4] <= MEMORY_SIZE => status = Running

\* in a build without overflow checks the index wraps and the draw completes
C28_WrappingBuildCompletes ==
    FetchedArm = "Dxyn" /\ Prev.i + Fetched[4] <= MEMORY_SIZE /\ ~overflow_checks
        => status = Running

====
